---- MODULE Spec2Model ----
(***************************************************************************)
(* A model of the two programs of the repository:                          *)
(*   transfer.py    resume JSON       -> PDF                               *)
(*   transferCL.py  cover letter JSON -> PDF                               *)
(*                                                                         *)
(* A Python string is a sequence of tokens (a token stands for a run of    *)
(* characters; " " and "\t" are the whitespace tokens), so concatenation,  *)
(* join, strip and strftime are computed and not assumed.  A JSON object   *)
(* is a function from its keys; a JSON array is a sequence.  A parsed      *)
(* mapping whose order matters (skills) is the sequence of its items.      *)
(* The story handed to the page-layout engine is a sequence of blocks.     *)
(***************************************************************************)
EXTENDS Integers, Sequences, FiniteSets, TLC

VARIABLES
    prog,         \* which program runs: "resume" (transfer.py) or "cover" (transferCL.py)
    fontsPresent, \* whether the four font files exist under ./font
    jsonFile,     \* the file at --json: [wellFormed, value]
    outPath,      \* --out, as the sequence of its path components
    dirs,         \* the directories that exist (paths below the working directory)
    dirs0,        \* the directories that existed before the first run
    files,        \* the files that exist
    today,        \* the system date: [year, month, day]
    pc,           \* position of the running program
    data,         \* the parsed JSON document
    story,        \* the block sequence built so far
    origin,       \* for each block of story, the step that appended it
    error,        \* the exception that ended the run, or NoError
    run,          \* number of the current run of the program
    prev,         \* the previous run: [ran, error, story, date]
    readDate      \* the dates the current run read with date.today()

vars == <<prog, fontsPresent, jsonFile, outPath, dirs, dirs0, files, today, pc, data,
          story, origin, error, run, prev, readDate>>

(***************************************************************************)
(* Bounds of the model.                                                    *)
(***************************************************************************)
MaxEntries == 2   \* entries of a resume section
MaxBullets == 3   \* bullets of one entry
MaxCats == 2      \* categories of the skills mapping
MaxBody == 2      \* paragraphs of a cover letter body
MaxRuns == 2      \* runs of the program on the same command line
MaxDays == 1      \* days that may pass while the model runs

(***************************************************************************)
(* Python values.                                                          *)
(***************************************************************************)
EmptyDict == [k \in {} |-> k]

Get(d, key, default) == IF key \in DOMAIN d THEN d[key] ELSE default

Whitespace == {" ", "\t"}

RECURSIVE lstrip(_)
lstrip(s) == IF s # <<>> /\ Head(s) \in Whitespace THEN lstrip(Tail(s)) ELSE s

RECURSIVE rstrip(_)
rstrip(s) ==
    IF s # <<>> /\ s[Len(s)] \in Whitespace THEN rstrip(SubSeq(s, 1, Len(s) - 1)) ELSE s

strip(s) == rstrip(lstrip(s))

RECURSIVE join(_, _)
join(sep, parts) ==
    IF parts = <<>> THEN <<>>
    ELSE IF Len(parts) = 1 THEN parts[1]
    ELSE parts[1] \o sep \o join(sep, Tail(parts))

RECURSIVE Flatten(_)
Flatten(seqs) == IF seqs = <<>> THEN <<>> ELSE Head(seqs) \o Flatten(Tail(seqs))

RECURSIVE Filter(_, _)
Filter(s, keep) ==
    IF s = <<>> THEN <<>>
    ELSE (IF keep[1] THEN <<Head(s)>> ELSE <<>>) \o Filter(Tail(s), Tail(keep))

NoError == [type |-> "none", at |-> "none"]

(***************************************************************************)
(* Blocks (reportlab flowables).  Lengths are in tenths of a point.        *)
(***************************************************************************)
Paragraph(text, style) == [kind |-> "Paragraph", text |-> text, style |-> style]

Spacer(width, height) == [kind |-> "Spacer", width |-> width, height |-> height]

HRFlowable == [kind |-> "HRFlowable", width |-> "100%", thickness |-> 5, color |-> "lightgrey"]

ListItem(flowable) == [kind |-> "ListItem", flowable |-> flowable]

ListFlowable(items, kwds) == [kind |-> "ListFlowable", items |-> items, kwds |-> kwds]

Table(row) == [kind |-> "Table", cells |-> row, hAlign |-> "LEFT"]

(***************************************************************************)
(* transfer.py: fonts and styles.                                          *)
(***************************************************************************)
family ==
    [REG |-> "Inter", BOLD |-> "Inter-Bold", ITALIC |-> "Inter-Italic",
     BOLDITALIC |-> "Inter-BoldItalic"]

make_styles ==
    [Name       |-> [fontName |-> family.BOLD,   alignment |-> "CENTER"],
     Contact    |-> [fontName |-> family.ITALIC, alignment |-> "CENTER"],
     Section    |-> [fontName |-> family.BOLD,   alignment |-> "LEFT"],
     Body       |-> [fontName |-> family.REG,    alignment |-> "LEFT"],
     Meta       |-> [fontName |-> family.ITALIC, alignment |-> "LEFT"],
     HeaderLine |-> [fontName |-> family.BOLD,   alignment |-> "LEFT"],
     LeftCell   |-> [fontName |-> family.BOLD,   alignment |-> "LEFT"],
     RightCell  |-> [fontName |-> family.BOLD,   alignment |-> "RIGHT"],
     LeftCellR  |-> [fontName |-> family.ITALIC, alignment |-> "LEFT"],
     RightCellR |-> [fontName |-> family.ITALIC, alignment |-> "RIGHT"]]

(***************************************************************************)
(* transfer.py: rendering helpers.                                         *)
(***************************************************************************)
ContactKeys == <<"email", "phone", "linkedin", "github">>

join_contact_line(basics) ==
    LET vals == [i \in 1..Len(ContactKeys) |-> Get(basics, ContactKeys[i], <<>>)]
        parts == Filter(vals, [i \in 1..Len(vals) |-> vals[i] # <<>>])
    IN  join(<<" ", "|", " ">>, parts)

\* bullet_list without the strip: only the empty string is dropped.
bullet_list_no_strip(flowables, style) ==
    LET kept == Filter(flowables, [i \in 1..Len(flowables) |-> flowables[i] # <<>>])
        items == [i \in 1..Len(kept) |-> ListItem(Paragraph(kept[i], style))]
    IN  IF items = <<>> THEN ListFlowable(<<>>, EmptyDict)
        ELSE ListFlowable(items, [bulletType |-> "bullet", leftPadding |-> 100])

bullet_list(flowables, style) ==
    LET keep == [i \in 1..Len(flowables) |->
                    flowables[i] # <<>> /\ strip(flowables[i]) # <<>>]
        kept == Filter(flowables, keep)
        items == [i \in 1..Len(kept) |-> ListItem(Paragraph(kept[i], style))]
    IN  IF items = <<>> THEN ListFlowable(<<>>, EmptyDict)
        ELSE ListFlowable(items, [bulletType |-> "bullet", leftPadding |-> 100])

\* render_key_value_lines with the skill names joined by "," and no space.
render_key_value_lines_tight(skills) ==
    [i \in 1..Len(skills) |->
        Paragraph(<<"<font name=\"" \o family.BOLD \o "\">">> \o skills[i].cat
                      \o <<":", "</font>", " ">> \o join(<<",">>, skills[i].vals),
                  "SkillLine")]

render_key_value_lines(skills) ==
    LET heavy == Get(family, "HEAVY", family.BOLD)
    IN  [i \in 1..Len(skills) |->
            Paragraph(<<"<font name=\"" \o heavy \o "\">">> \o skills[i].cat
                          \o <<":", "</font>", " ">> \o join(<<",", " ">>, skills[i].vals),
                      "SkillLine")]

render_section_title(title) ==
    <<Spacer(10, 20), Paragraph(title, "Section"), HRFlowable, Spacer(10, 20)>>

table_line(left, right, Bold) ==
    IF Bold
    THEN Table(<<Paragraph(left, "LeftCell"), Paragraph(right, "RightCell")>>)
    ELSE Table(<<Paragraph(left, "LeftCellR"), Paragraph(right, "RightCellR")>>)

(***************************************************************************)
(* transfer.py: build_pdf, one operator per part of the story.             *)
(***************************************************************************)
\* HeaderBlocks with the day of the run printed under the name.
HeaderBlocks_dated(resume) ==
    <<Paragraph(Get(Get(resume, "basics", EmptyDict), "name", <<>>), "Name"),
      Paragraph(<<ToString(today.day)>>, "Contact"), Spacer(10, 10)>>

HeaderBlocks(resume) ==
    LET basics == Get(resume, "basics", EmptyDict)
        name == Get(basics, "name", <<>>)
        contact_line == join_contact_line(basics)
        status == Get(basics, "status", <<>>)
    IN  (IF name # <<>> THEN <<Paragraph(name, "Name")>> ELSE <<>>)
        \o (IF contact_line # <<>>
            THEN <<Paragraph(contact_line, "Contact"), Paragraph(status, "Contact")>>
            ELSE <<>>)
        \o <<Spacer(10, 10)>>

EducationEntry(ed) ==
    LET degree == Get(ed, "company", <<>>)
        school == Get(ed, "role", <<>>)
        location == Get(ed, "location", <<>>)
        dates == Get(ed, "dates", <<>>)
    IN  <<table_line(school, dates, TRUE), table_line(degree, location, FALSE),
          Spacer(10, 10)>>

\* EducationBlocks without the test of the list: the title is always there.
EducationBlocks_always_titled(resume) ==
    LET edus == Get(resume, "education", <<>>)
    IN  render_section_title(<<"Education">>)
        \o Flatten([i \in 1..Len(edus) |-> EducationEntry(edus[i])])

EducationBlocks(resume) ==
    LET edus == Get(resume, "education", <<>>)
    IN  IF edus # <<>>
        THEN render_section_title(<<"Education">>)
             \o Flatten([i \in 1..Len(edus) |-> EducationEntry(edus[i])])
        ELSE <<>>

ExperienceEntry(e) ==
    LET role == Get(e, "role", <<>>)
        date == Get(e, "dates", <<>>)
        location == Get(e, "location", <<>>)
        company == Get(e, "company", <<>>)
        bullets == Get(e, "bullets", <<>>)
    IN  <<table_line(role, date, TRUE), table_line(company, location, FALSE)>>
        \o (IF bullets # <<>> THEN <<bullet_list(bullets, "Body")>> ELSE <<>>)
        \o <<Spacer(10, 10)>>

\* ExperienceBlocks walking the list from its end.
ExperienceBlocks_reversed(resume) ==
    LET exps == Get(resume, "experience", <<>>)
    IN  IF exps # <<>>
        THEN render_section_title(<<"Experience">>)
             \o Flatten([i \in 1..Len(exps) |-> ExperienceEntry(exps[Len(exps) + 1 - i])])
        ELSE <<>>

ExperienceBlocks(resume) ==
    LET exps == Get(resume, "experience", <<>>)
    IN  IF exps # <<>>
        THEN render_section_title(<<"Experience">>)
             \o Flatten([i \in 1..Len(exps) |-> ExperienceEntry(exps[i])])
        ELSE <<>>

ProjectEntry(p) ==
    LET title == Get(p, "title", <<>>)
        dates == Get(p, "dates", <<>>)
        bullets == Get(p, "bullets", <<>>)
    IN  <<table_line(title, dates, TRUE)>>
        \o (IF bullets # <<>> THEN <<bullet_list(bullets, "Body")>> ELSE <<>>)
        \o <<Spacer(10, 10)>>

ProjectsBlocks(resume) ==
    LET projs == Get(resume, "projects", <<>>)
    IN  IF projs # <<>>
        THEN render_section_title(<<"Projects">>)
             \o Flatten([i \in 1..Len(projs) |-> ProjectEntry(projs[i])])
        ELSE <<>>

SkillsBlocks(resume) ==
    LET skills == Get(resume, "skills", <<>>)
    IN  IF skills # <<>>
        THEN render_section_title(<<"Technical", " ", "Skills">>)
             \o render_key_value_lines(resume["skills"])
        ELSE <<>>

(***************************************************************************)
(* The file system and the clock.                                          *)
(***************************************************************************)
dirname(path) == SubSeq(path, 1, Len(path) - 1)

Prefixes(path) == {SubSeq(path, 1, n) : n \in 0..Len(path)}

MonthName ==
    <<"January", "February", "March", "April", "May", "June", "July", "August",
      "September", "October", "November", "December">>

strftime(d) ==
    <<MonthName[d.month], " ">>
    \o (IF d.day < 10 THEN <<"0", ToString(d.day)>> ELSE <<ToString(d.day)>>)
    \o <<",", " ", ToString(d.year)>>

(***************************************************************************)
(* Steps shared by the actions.                                            *)
(***************************************************************************)
Emit(blocks, tag) ==
    /\ story' = story \o blocks
    /\ origin' = origin \o [i \in 1..Len(blocks) |-> tag]

Raise(type, at) ==
    /\ error' = [type |-> type, at |-> at]
    /\ pc' = "done"

Env == <<prog, fontsPresent, jsonFile, outPath, dirs0, today, run, prev>>

(***************************************************************************)
(* transfer.py, in program order.                                          *)
(***************************************************************************)
RegisterFamily ==
    /\ prog = "resume" /\ pc = "import"
    /\ IF fontsPresent
       THEN pc' = "main" /\ error' = error
       ELSE Raise("FileNotFoundError", "register_family")
    /\ UNCHANGED <<Env, dirs, files, data, story, origin, readDate>>

MainLoad ==
    /\ prog = "resume" /\ pc = "main"
    /\ IF jsonFile.wellFormed
       THEN data' = jsonFile.value /\ pc' = "header" /\ error' = error
       ELSE data' = data /\ Raise("JSONDecodeError", "json.load")
    /\ UNCHANGED <<Env, dirs, files, story, origin, readDate>>

Header ==
    /\ prog = "resume" /\ pc = "header"
    /\ Emit(HeaderBlocks(data), "header")
    /\ pc' = "education"
    /\ UNCHANGED <<Env, dirs, files, data, error, readDate>>

Education ==
    /\ prog = "resume" /\ pc = "education"
    /\ Emit(EducationBlocks(data), "education")
    /\ pc' = "experience"
    /\ UNCHANGED <<Env, dirs, files, data, error, readDate>>

Experience ==
    /\ prog = "resume" /\ pc = "experience"
    /\ Emit(ExperienceBlocks(data), "experience")
    /\ pc' = "projects"
    /\ UNCHANGED <<Env, dirs, files, data, error, readDate>>

Projects ==
    /\ prog = "resume" /\ pc = "projects"
    /\ Emit(ProjectsBlocks(data), "projects")
    /\ pc' = "skills"
    /\ UNCHANGED <<Env, dirs, files, data, error, readDate>>

Skills ==
    /\ prog = "resume" /\ pc = "skills"
    /\ Emit(SkillsBlocks(data), "skills")
    /\ pc' = "build"
    /\ UNCHANGED <<Env, dirs, files, data, error, readDate>>

DocBuild ==
    /\ prog = "resume" /\ pc = "build"
    /\ IF dirname(outPath) \in dirs
       THEN files' = files \cup {outPath} /\ pc' = "done" /\ error' = error
       ELSE files' = files /\ Raise("FileNotFoundError", "doc.build")
    /\ UNCHANGED <<Env, dirs, data, story, origin, readDate>>

(***************************************************************************)
(* transferCL.py: json_to_pdf, one operator per part of the story.         *)
(***************************************************************************)
HasKeys(d, keys) == keys \subseteq DOMAIN d

CLHeaderBlocks(applicant) ==
    <<Paragraph(<<"<b>">> \o applicant["name"] \o <<"</b>">>, "Header"),
      Paragraph(applicant["email"] \o <<" ", "|", " ">> \o applicant["phone"], "Header"),
      Paragraph(<<"<a href='">> \o applicant["linkedin"] \o <<"'>">>
                    \o applicant["linkedin"] \o <<"</a>", " ", "|", " ">>
                    \o <<"<a href='">> \o applicant["github"] \o <<"'>">>
                    \o applicant["github"] \o <<"</a>">>,
                "Header"),
      Spacer(10, 144)>>

CLDateBlocks(recipient, today_str) ==
    <<Paragraph(today_str, "Body"),
      Paragraph(<<"Dear", " ">> \o recipient["title"] \o <<",">>, "Body"),
      Spacer(10, 72)>>

\* CLBodyBlocks appending each paragraph twice.
CLBodyBlocks_twice(document) ==
    Flatten([i \in 1..Len(document["body"]) |->
                <<Paragraph(document["body"][i], "Body"),
                  Paragraph(document["body"][i], "Body")>>])

CLBodyBlocks(document) ==
    [i \in 1..Len(document["body"]) |-> Paragraph(document["body"][i], "Body")]

CLClosingBlocks(closing) ==
    <<Paragraph(closing["signature"], "Closing"), Paragraph(closing["name"], "Body")>>

(***************************************************************************)
(* transferCL.py, in program order.                                        *)
(***************************************************************************)
\* CLLoad with the output directory made before the file is parsed.
CLLoad_makedirs_first ==
    /\ prog = "cover" /\ pc = "main"
    /\ dirs' = dirs \cup Prefixes(dirname(outPath))
    /\ IF jsonFile.wellFormed
       THEN data' = jsonFile.value /\ pc' = "fields" /\ error' = error
       ELSE data' = data /\ Raise("JSONDecodeError", "json.load")
    /\ UNCHANGED <<Env, files, story, origin, readDate>>

CLLoad ==
    /\ prog = "cover" /\ pc = "main"
    /\ IF jsonFile.wellFormed
       THEN data' = jsonFile.value /\ pc' = "fields" /\ error' = error
       ELSE data' = data /\ Raise("JSONDecodeError", "json.load")
    /\ UNCHANGED <<Env, dirs, files, story, origin, readDate>>

\* CLFields reading the two keys with a default instead of indexing.
CLFields_unchecked ==
    /\ prog = "cover" /\ pc = "fields"
    /\ pc' = "makedirs" /\ error' = error
    /\ UNCHANGED <<Env, dirs, files, data, story, origin, readDate>>

CLFields ==
    /\ prog = "cover" /\ pc = "fields"
    /\ IF "applicant" \notin DOMAIN data THEN Raise("KeyError", "applicant")
       ELSE IF "document" \notin DOMAIN data THEN Raise("KeyError", "document")
       ELSE pc' = "makedirs" /\ error' = error
    /\ UNCHANGED <<Env, dirs, files, data, story, origin, readDate>>

CLMakedirs ==
    /\ prog = "cover" /\ pc = "makedirs"
    /\ IF dirname(outPath) = <<>>
       THEN dirs' = dirs /\ Raise("FileNotFoundError", "os.makedirs")
       ELSE dirs' = dirs \cup Prefixes(dirname(outPath)) /\ pc' = "header" /\ error' = error
    /\ UNCHANGED <<Env, files, data, story, origin, readDate>>

CLHeader ==
    /\ prog = "cover" /\ pc = "header"
    /\ IF HasKeys(data, {"applicant"})
          /\ HasKeys(data["applicant"], {"name", "email", "phone", "linkedin", "github"})
       THEN Emit(CLHeaderBlocks(data["applicant"]), "header")
            /\ pc' = "date" /\ error' = error
       ELSE UNCHANGED <<story, origin>> /\ Raise("KeyError", "applicant")
    /\ UNCHANGED <<Env, dirs, files, data, readDate>>

CLDateRecipient ==
    /\ prog = "cover" /\ pc = "date"
    /\ IF HasKeys(data, {"document"}) /\ HasKeys(data["document"], {"recipient"})
          /\ HasKeys(data["document"]["recipient"], {"title"})
       THEN Emit(CLDateBlocks(data["document"]["recipient"], strftime(today)), "date")
            /\ readDate' = today /\ pc' = "body" /\ error' = error
       ELSE UNCHANGED <<story, origin, readDate>> /\ Raise("KeyError", "recipient")
    /\ UNCHANGED <<Env, dirs, files, data>>

CLBody ==
    /\ prog = "cover" /\ pc = "body"
    /\ IF HasKeys(data["document"], {"body"})
       THEN Emit(CLBodyBlocks(data["document"]), "body")
            /\ pc' = "closing" /\ error' = error
       ELSE UNCHANGED <<story, origin>> /\ Raise("KeyError", "body")
    /\ UNCHANGED <<Env, dirs, files, data, readDate>>

CLClosing ==
    /\ prog = "cover" /\ pc = "closing"
    /\ IF HasKeys(data["document"], {"closing"})
          /\ HasKeys(data["document"]["closing"], {"signature", "name"})
       THEN Emit(CLClosingBlocks(data["document"]["closing"]), "closing")
            /\ pc' = "build" /\ error' = error
       ELSE UNCHANGED <<story, origin>> /\ Raise("KeyError", "closing")
    /\ UNCHANGED <<Env, dirs, files, data, readDate>>

CLBuild ==
    /\ prog = "cover" /\ pc = "build"
    /\ IF dirname(outPath) \in dirs
       THEN files' = files \cup {outPath} /\ pc' = "done" /\ error' = error
       ELSE files' = files /\ Raise("FileNotFoundError", "doc.build")
    /\ UNCHANGED <<Env, dirs, data, story, origin, readDate>>

(***************************************************************************)
(* The environment: the command line is run again; a day passes.           *)
(***************************************************************************)
FirstDay == [year |-> 2025, month |-> 11, day |-> 9]

NoDate == [year |-> 0, month |-> 0, day |-> 0]

NoRun == [ran |-> FALSE, error |-> NoError, story |-> <<>>, date |-> NoDate]

StartPc(p) == IF p = "resume" THEN "import" ELSE "main"

Rerun ==
    /\ pc = "done" /\ run < MaxRuns
    /\ prev' = [ran |-> TRUE, error |-> error, story |-> story, date |-> readDate]
    /\ run' = run + 1
    /\ pc' = StartPc(prog)
    /\ data' = EmptyDict /\ story' = <<>> /\ origin' = <<>>
    /\ error' = NoError /\ readDate' = NoDate
    /\ UNCHANGED <<prog, fontsPresent, jsonFile, outPath, dirs, dirs0, files, today>>

DayPasses ==
    /\ today.day - FirstDay.day < MaxDays
    /\ today' = [today EXCEPT !.day = @ + 1]
    /\ UNCHANGED <<prog, fontsPresent, jsonFile, outPath, dirs, dirs0, files, pc, data,
                   story, origin, error, run, prev, readDate>>

(***************************************************************************)
(* Input documents.                                                        *)
(***************************************************************************)
SeqsUpTo(S, n) == UNION {[1..k -> S] : k \in 0..n}

Optional(key, values) == {EmptyDict} \cup {key :> v : v \in values}

BasicsValues ==
    {[name |-> <<"Jane", " ", "Doe">>, email |-> <<"jane@example.org">>,
      phone |-> <<"555-0100">>, github |-> <<"github.com/jane">>,
      status |-> <<"Open", " ", "to", " ", "work">>]}

EducationEntries ==
    {[company |-> <<"MIT">>, role |-> <<"BSc">>, location |-> <<"Cambridge">>,
      dates |-> <<"2015-2019">>],
     [company |-> <<"ETH">>, role |-> <<"MSc">>, dates |-> <<"2019-2021">>]}

ExperienceEntries ==
    {[role |-> <<"Engineer">>, company |-> <<"Acme">>, location |-> <<"Berlin">>,
      dates |-> <<"2022">>,
      bullets |-> <<<<"Built", " ", "x">>, <<" ">>, <<" ", "Ran", " ", "y">>>>],
     [role |-> <<"Intern">>, company |-> <<"Initech">>, dates |-> <<"2020">>]}

ProjectEntries ==
    {[title |-> <<"Compiler">>, dates |-> <<"2023">>, bullets |-> <<<<>>, <<"\t">>>>],
     [title |-> <<"Solver">>, dates |-> <<"2024">>, bullets |-> <<<<"Wrote", " ", "z">>>>]}

SkillsSample ==
    <<[cat |-> <<"Programming">>, vals |-> <<<<"Python">>, <<"Go">>>>],
      [cat |-> <<"Tools">>, vals |-> <<<<"Git">>>>]>>

\* Resumes with every combination of absent, empty and filled sections.
LayoutResumes ==
    {b @@ ed @@ ex @@ pr @@ sk :
        b \in Optional("basics", BasicsValues),
        ed \in Optional("education", SeqsUpTo(EducationEntries, MaxEntries)),
        ex \in Optional("experience", SeqsUpTo(ExperienceEntries, MaxEntries)),
        pr \in Optional("projects", SeqsUpTo(ProjectEntries, MaxEntries)),
        sk \in Optional("skills", {<<>>, SkillsSample})}

BulletTexts == {<<>>, <<" ">>, <<"x">>, <<" ", "y", "\t">>}

BulletLists == SeqsUpTo(BulletTexts, MaxBullets)

CatNames == {<<"Programming">>, <<"Tools">>, <<"Spoken", " ", "languages">>}

ValLists == {<<>>, <<<<"Python">>>>, <<<<"Python">>, <<"Go">>>>}

\* The items of a parsed JSON object: its keys are distinct.
SkillMaps ==
    {m \in SeqsUpTo([cat : CatNames, vals : ValLists], MaxCats) :
        \A i, j \in 1..Len(m) : m[i].cat = m[j].cat => i = j}

\* Resumes with one entry, over every bullets list, or with a skills mapping alone.
DetailResumes ==
    {"experience" :> <<e>> :
        e \in {[role |-> <<"Engineer">>, dates |-> <<"2022">>]}
              \cup {[role |-> <<"Engineer">>, dates |-> <<"2022">>, bullets |-> b] :
                        b \in BulletLists}}
    \cup {"projects" :> <<e>> :
        e \in {[title |-> <<"Solver">>]}
              \cup {[title |-> <<"Solver">>, bullets |-> b] : b \in BulletLists}}
    \cup {"skills" :> m : m \in SkillMaps}

RunResumes ==
    {EmptyDict,
     [basics |-> [name |-> <<"Jane", " ", "Doe">>],
      experience |-> <<[role |-> <<"Engineer">>, bullets |-> <<<<"Built", " ", "x">>>>]>>],
     [basics |-> [name |-> <<"Jane", " ", "Doe">>, email |-> <<"jane@example.org">>],
      education |-> <<[company |-> <<"MIT">>, role |-> <<"BSc">>]>>,
      skills |-> SkillsSample]}

Applicant ==
    [name |-> <<"Jane", " ", "Doe">>, email |-> <<"jane@example.org">>,
     phone |-> <<"555-0100">>, linkedin |-> <<"linkedin.com/in/jane">>,
     github |-> <<"github.com/jane">>]

BodyTexts == {<<"I", " ", "apply.">>, <<"Thank", " ", "you.">>}

Closing == [signature |-> <<"Sincerely,">>, name |-> <<"Jane", " ", "Doe">>]

Recipient == [title |-> <<"Hiring", " ", "Manager">>]

ValidLetters ==
    {[applicant |-> Applicant,
      document |-> [recipient |-> Recipient, body |-> b, closing |-> Closing]] :
        b \in SeqsUpTo(BodyTexts, MaxBody)}

\* Letters without a required key: a top-level one, or the nested recipient.
InvalidLetters ==
    {EmptyDict,
     [applicant |-> Applicant],
     [document |-> [recipient |-> Recipient, body |-> <<>>, closing |-> Closing]],
     [applicant |-> Applicant, document |-> [body |-> <<>>, closing |-> Closing]]}

Malformed == [wellFormed |-> FALSE, value |-> EmptyDict]

WellFormed(docs) == {[wellFormed |-> TRUE, value |-> d] : d \in docs}

OutPaths == {<<"out.pdf">>, <<"out", "out.pdf">>, <<"out", "letters", "out.pdf">>}

DirTrees == {{<<>>}, {<<>>, <<"out">>}, {<<>>, <<"out">>, <<"out", "letters">>}}

(***************************************************************************)
(* Specifications.                                                         *)
(***************************************************************************)
Start(p, inputs, paths, trees, fonts) ==
    /\ prog = p
    /\ jsonFile \in inputs
    /\ outPath \in paths
    /\ dirs \in trees /\ dirs0 = dirs
    /\ files = {}
    /\ fontsPresent \in fonts
    /\ today = FirstDay
    /\ pc = StartPc(p)
    /\ data = EmptyDict /\ story = <<>> /\ origin = <<>>
    /\ error = NoError /\ readDate = NoDate
    /\ run = 1 /\ prev = NoRun

\* Both programs, over the command lines, file systems and days.
Init ==
    \/ Start("resume", {Malformed} \cup WellFormed(RunResumes), OutPaths, DirTrees, BOOLEAN)
    \/ Start("cover", {Malformed} \cup WellFormed(ValidLetters \cup InvalidLetters),
             OutPaths, DirTrees, BOOLEAN)

ResumeNext ==
    \/ RegisterFamily
    \/ MainLoad
    \/ Header
    \/ Education
    \/ Experience
    \/ Projects
    \/ Skills
    \/ DocBuild

CoverNext ==
    \/ CLLoad
    \/ CLFields
    \/ CLMakedirs
    \/ CLHeader
    \/ CLDateRecipient
    \/ CLBody
    \/ CLClosing
    \/ CLBuild

Next == ResumeNext \/ CoverNext \/ Rerun \/ DayPasses

Spec == Init /\ [][Next]_vars

\* One run of transfer.py on each resume of LayoutResumes.
InitLayout == Start("resume", WellFormed(LayoutResumes), {<<"out.pdf">>}, {{<<>>}}, {TRUE})

SpecLayout == InitLayout /\ [][ResumeNext]_vars

\* One run of transfer.py on each resume of DetailResumes.
InitDetail == Start("resume", WellFormed(DetailResumes), {<<"out.pdf">>}, {{<<>>}}, {TRUE})

SpecDetail == InitDetail /\ [][ResumeNext]_vars

(***************************************************************************)
(* Vocabulary of the properties.                                           *)
(***************************************************************************)
\* transfer.py has built its whole story and hands, or has handed, it to doc.build.
Handed ==
    /\ prog = "resume"
    /\ \/ pc = "build"
       \/ pc = "done" /\ error.at \in {"none", "doc.build"}

\* transferCL.py has built its whole story.
CLHanded ==
    /\ prog = "cover"
    /\ \/ pc = "build"
       \/ pc = "done" /\ error.at \in {"none", "doc.build"}

BlocksOf(tag) == Filter(story, [i \in 1..Len(story) |-> origin[i] = tag])

SectionKeys == {"education", "experience", "projects", "skills"}

Heading(key) ==
    CASE key = "education" -> <<"Education">>
      [] key = "experience" -> <<"Experience">>
      [] key = "projects" -> <<"Projects">>
      [] key = "skills" -> <<"Technical", " ", "Skills">>

Rank(tag) ==
    CASE tag = "header" -> 0
      [] tag = "education" -> 1
      [] tag = "experience" -> 2
      [] tag = "projects" -> 3
      [] tag = "skills" -> 4

NonBlank(text) == \E i \in 1..Len(text) : text[i] \notin Whitespace

IsBoldRow(b) == b.kind = "Table" /\ b.cells[1].style = "LeftCell"

IsList(b) == b.kind = "ListFlowable"

HasBullets(e) == Get(e, "bullets", <<>>) # <<>>

\* The right-hand texts of the bold rows of a section, in story order.
BoldDates(tag) ==
    LET rows == SelectSeq(BlocksOf(tag), IsBoldRow)
    IN  [i \in 1..Len(rows) |-> rows[i].cells[2].text]

\* The texts of the bullet items of a section, in story order.
ItemTexts(tag) ==
    LET lists == SelectSeq(BlocksOf(tag), IsList)
    IN  Flatten([k \in 1..Len(lists) |->
                    [i \in 1..Len(lists[k].items) |-> lists[k].items[i].flowable.text]])

EntryDates(key) ==
    LET entries == Get(data, key, <<>>)
    IN  [i \in 1..Len(entries) |-> Get(entries[i], "dates", <<>>)]

EntryBullets(key) ==
    LET entries == Get(data, key, <<>>)
    IN  Flatten([i \in 1..Len(entries) |->
                    SelectSeq(Get(entries[i], "bullets", <<>>), NonBlank)])

CommaSeparated(vals) ==
    Flatten([i \in 1..Len(vals) |-> IF i = 1 THEN vals[i] ELSE <<",", " ">> \o vals[i]])

BothRunsSucceeded ==
    /\ run > 1 /\ prev.ran /\ prev.error = NoError
    /\ pc = "done" /\ error = NoError

ValidInput ==
    /\ jsonFile.wellFormed
    /\ prog = "cover" => jsonFile.value \in ValidLetters
    /\ prog = "resume" => fontsPresent

MissingTopLevelKey ==
    /\ prog = "cover" /\ jsonFile.wellFormed
    /\ ~ ({"applicant", "document"} \subseteq DOMAIN jsonFile.value)

(***************************************************************************)
(* C1.  In build_pdf, a section (education, experience, projects, skills)  *)
(* whose key is absent or whose value is empty contributes no heading and  *)
(* no block to the story; a non-empty section's heading is in the story    *)
(* exactly once, among the section's own blocks.                           *)
(***************************************************************************)
C1_AbsentSectionsOmitted ==
    Handed =>
        \A key \in SectionKeys :
            LET headings == {i \in 1..Len(story) :
                                story[i] = Paragraph(Heading(key), "Section")}
            IN  IF Get(data, key, <<>>) # <<>>
                THEN /\ Cardinality(headings) = 1
                     /\ \A i \in headings : origin[i] = key
                ELSE /\ headings = {}
                     /\ BlocksOf(key) = <<>>

C1_Witness ==
    /\ Handed
    /\ "education" \in DOMAIN data /\ data["education"] # <<>>
    /\ "experience" \in DOMAIN data /\ data["experience"] = <<>>
    /\ "projects" \notin DOMAIN data
    /\ "skills" \in DOMAIN data /\ data["skills"] # <<>>
    /\ Len(BlocksOf("education")) > 0 /\ Len(BlocksOf("skills")) > 0

(***************************************************************************)
(* C2.  A --json file that is not well-formed JSON ends the run with the   *)
(* parse error of json.load, and no directory and no file has been         *)
(* created: the file system is the one the run started with.  (The run of  *)
(* transfer.py reaches json.load only when its fonts were registered at    *)
(* import; without them it has already ended there, creating nothing.)     *)
(***************************************************************************)
C2_MalformedCreatesNothing ==
    ~ jsonFile.wellFormed =>
        /\ dirs = dirs0 /\ files = {}
        /\ story = <<>>
        /\ pc = "done" => error.type # "none"
        /\ pc = "done" /\ (prog = "cover" \/ fontsPresent) =>
               error = [type |-> "JSONDecodeError", at |-> "json.load"]

C2_Witness ==
    /\ ~ jsonFile.wellFormed
    /\ prog = "cover" /\ pc = "done" /\ error.type = "JSONDecodeError"
    /\ dirname(outPath) \notin dirs0
    /\ dirs = dirs0 /\ files = {}

(***************************************************************************)
(* C3.  On valid input every --out path gives a successful run that        *)
(* leaves the PDF at that path, its parent directories created when        *)
(* missing.                                                                *)
(***************************************************************************)
C3_EveryOutPathSucceeds ==
    ValidInput /\ pc = "done" =>
        /\ error = NoError
        /\ outPath \in files
        /\ Prefixes(dirname(outPath)) \subseteq dirs

(***************************************************************************)
(* C4.  Two runs of the same program on the same document hand the same    *)
(* story to the renderer, whatever else differs between the runs.          *)
(***************************************************************************)
C4_SameStoryEveryRun == BothRunsSucceeded => story = prev.story

(***************************************************************************)
(* C4, amended.  Two runs of transfer.py on the same document hand over    *)
(* the same story.  Two runs of transferCL.py hand over stories that are   *)
(* equal except for the fifth block, which is the date each run read from  *)
(* the clock; they are equal when both runs read the same date.            *)
(***************************************************************************)
C4_SameStoryUpToDate ==
    BothRunsSucceeded =>
        IF prog = "resume" THEN story = prev.story
        ELSE /\ Len(story) = Len(prev.story)
             /\ \A i \in 1..Len(story) : i # 5 => story[i] = prev.story[i]
             /\ story[5] = Paragraph(strftime(readDate), "Body")
             /\ prev.story[5] = Paragraph(strftime(prev.date), "Body")
             /\ readDate = prev.date => story = prev.story

C4_Witness ==
    /\ BothRunsSucceeded
    /\ prog = "cover" /\ readDate # prev.date
    /\ story # prev.story
    /\ Len(data["document"]["body"]) = 2

(***************************************************************************)
(* C5.  The story of build_pdf is ordered Header, Education, Experience,   *)
(* Projects, Skills: the header blocks come first and no block of a later  *)
(* section precedes a block of an earlier one.  Within a section the       *)
(* entries keep the order of the input list (read off the dates of their   *)
(* bold rows), and so do the bullets of the entries.                       *)
(***************************************************************************)
C5_SectionOrder ==
    Handed =>
        /\ story # <<>> /\ origin[1] = "header"
        /\ \A i \in 1..(Len(story) - 1) : Rank(origin[i]) <= Rank(origin[i + 1])
        /\ \A key \in {"education", "experience", "projects"} :
               BoldDates(key) = EntryDates(key)
        /\ \A key \in {"experience", "projects"} : ItemTexts(key) = EntryBullets(key)

C5_Witness ==
    /\ Handed
    /\ \A key \in SectionKeys : Get(data, key, <<>>) # <<>>
    /\ Len(data["experience"]) = 2
    /\ data["experience"][1] # data["experience"][2]
    /\ HasBullets(data["experience"][2])
    /\ Len(data["education"]) = 2 /\ data["education"][1] # data["education"][2]
    /\ Len(ItemTexts("experience")) >= 2

(***************************************************************************)
(* C6.  Every non-empty bullets list of an experience or project entry     *)
(* gives one bullet block, and the items of that block are exactly the     *)
(* entries of the list that are not blank (neither empty nor whitespace    *)
(* only), one item each, in their order; no item has a blank text, and a   *)
(* list of blank entries gives a block without items.                      *)
(***************************************************************************)
C6_NoBlankBullets ==
    Handed =>
        LET entries == Get(data, "experience", <<>>) \o Get(data, "projects", <<>>)
            withBullets == SelectSeq(entries, HasBullets)
            lists == SelectSeq(story, IsList)
        IN  /\ Len(lists) = Len(withBullets)
            /\ \A k \in 1..Len(lists) :
                   LET wanted == SelectSeq(withBullets[k]["bullets"], NonBlank)
                   IN  /\ Len(lists[k].items) = Len(wanted)
                       /\ \A i \in 1..Len(wanted) :
                              /\ lists[k].items[i] = ListItem(Paragraph(wanted[i], "Body"))
                              /\ NonBlank(lists[k].items[i].flowable.text)

C6_Witness ==
    /\ Handed
    /\ "experience" \in DOMAIN data
    /\ HasBullets(data["experience"][1])
    /\ data["experience"][1]["bullets"] = <<<<" ", "y", "\t">>, <<" ">>, <<"x">>>>
    /\ Len(SelectSeq(story, IsList)) = 1
    /\ Len(SelectSeq(story, IsList)[1].items) = 2

(***************************************************************************)
(* C7.  The story of json_to_pdf is the four header blocks, the date the   *)
(* run read, the greeting "Dear <title>," and a spacer, then one Body      *)
(* paragraph per element of document.body, in input order and nothing      *)
(* else, then the closing signature and the closing name.                  *)
(***************************************************************************)
C7_BodyOnceInOrder ==
    CLHanded =>
        LET document == data["document"]
            body == document["body"]
            n == Len(body)
        IN  /\ Len(story) = 9 + n
            /\ origin = <<"header", "header", "header", "header", "date", "date", "date">>
                        \o [i \in 1..n |-> "body"] \o <<"closing", "closing">>
            /\ story[5] = Paragraph(strftime(readDate), "Body")
            /\ story[6] = Paragraph(<<"Dear", " ">> \o document["recipient"]["title"]
                                        \o <<",">>, "Body")
            /\ \A i \in 1..n : story[7 + i] = Paragraph(body[i], "Body")
            /\ story[8 + n] = Paragraph(document["closing"]["signature"], "Closing")
            /\ story[9 + n] = Paragraph(document["closing"]["name"], "Body")

C7_Witness ==
    /\ CLHanded /\ pc = "done" /\ error = NoError
    /\ Len(data["document"]["body"]) = 2
    /\ data["document"]["body"][1] # data["document"]["body"][2]
    /\ Len(BlocksOf("body")) = 2

(***************************************************************************)
(* C8.  When the parsed cover letter lacks the key applicant or the key    *)
(* document, the run ends with a KeyError naming that key, raised before   *)
(* os.makedirs: no directory and no file has been created.                 *)
(***************************************************************************)
C8_MissingKeyCreatesNothing ==
    MissingTopLevelKey =>
        /\ dirs = dirs0 /\ files = {}
        /\ pc \in {"main", "fields", "done"}
        /\ pc = "done" =>
               /\ error.type = "KeyError"
               /\ error.at = (IF "applicant" \notin DOMAIN jsonFile.value
                              THEN "applicant" ELSE "document")

C8_Witness ==
    /\ MissingTopLevelKey
    /\ "applicant" \in DOMAIN jsonFile.value
    /\ pc = "done" /\ error = [type |-> "KeyError", at |-> "document"]
    /\ dirname(outPath) # <<>> /\ dirname(outPath) \notin dirs0
    /\ dirs = dirs0

(***************************************************************************)
(* C9.  A non-empty skills mapping gives, after the section title, one     *)
(* line per category, in the mapping's order: the category name (in the    *)
(* heavy font) and a colon, a space, and the category's skill names in     *)
(* input order separated by ", ".                                          *)
(***************************************************************************)
C9_SkillLines ==
    Handed /\ Get(data, "skills", <<>>) # <<>> =>
        LET skills == data["skills"]
            blocks == BlocksOf("skills")
        IN  /\ Len(blocks) = 4 + Len(skills)
            /\ SubSeq(blocks, 1, 4) = render_section_title(Heading("skills"))
            /\ \A i \in 1..Len(skills) :
                   blocks[4 + i] =
                       Paragraph(<<"<font name=\"Inter-Bold\">">> \o skills[i].cat
                                     \o <<":", "</font>", " ">>
                                     \o CommaSeparated(skills[i].vals),
                                 "SkillLine")

C9_Witness ==
    /\ Handed
    /\ "skills" \in DOMAIN data
    /\ Len(data["skills"]) = 2
    /\ data["skills"][1] = [cat |-> <<"Programming">>, vals |-> <<<<"Python">>, <<"Go">>>>]
    /\ BlocksOf("skills")[5].text =
           <<"<font name=\"Inter-Bold\">", "Programming", ":", "</font>", " ",
             "Python", ",", " ", "Go">>

(***************************************************************************)
(* C10.  For every education entry the bold first row shows the school,    *)
(* the value of "company", with the dates right-aligned, and the italic    *)
(* second row shows the degree, the value of "role", with the location     *)
(* right-aligned.                                                          *)
(***************************************************************************)
C10_SchoolInBoldRow ==
    Handed =>
        LET edus == Get(data, "education", <<>>)
            blocks == BlocksOf("education")
        IN  /\ make_styles["LeftCell"].fontName = family.BOLD
            /\ make_styles["LeftCellR"].fontName = family.ITALIC
            /\ make_styles["RightCell"].alignment = "RIGHT"
            /\ make_styles["RightCellR"].alignment = "RIGHT"
            /\ \A i \in 1..Len(edus) :
                   /\ blocks[3 * i + 2] =
                          Table(<<Paragraph(Get(edus[i], "company", <<>>), "LeftCell"),
                                  Paragraph(Get(edus[i], "dates", <<>>), "RightCell")>>)
                   /\ blocks[3 * i + 3] =
                          Table(<<Paragraph(Get(edus[i], "role", <<>>), "LeftCellR"),
                                  Paragraph(Get(edus[i], "location", <<>>), "RightCellR")>>)

====
